---- MODULE Spec2Model ----
(***************************************************************************)
(* Model of scripts/generate-python-dateutil-fixtures.py: the RRULE text   *)
(* parser, anchor/range resolution, the range filter over the occurrence   *)
(* iterator, and the batch driver over input files.                        *)
(*                                                                         *)
(* Text is a sequence of one-character strings, so that split, strip,      *)
(* slicing and int() are computed on characters.  The time line is counted *)
(* in half-days ("ticks"): tick 0 is Monday 00:00, a day is TicksPerDay    *)
(* ticks, and a zone is its UTC offset in ticks (Etc/GMT-12 is +1,         *)
(* Etc/GMT+12 is -1).                                                      *)
(***************************************************************************)
EXTENDS Integers, Sequences, FiniteSets, TLC

\* ------------------------------------------------------------------ bounds

\* last day the iterator can represent (datetime.MAXYEAR in dateutil's _iter)
MaxDay == 11

\* number of input files in a batch, and of test cases in a multi-test file
MaxFiles == 2
MaxCases == 2

\* ------------------------------------------------------------------- text

TicksPerDay == 2
DaysPerWeek == 7

Digits == <<"0", "1", "2", "3", "4", "5", "6", "7", "8", "9">>

IsDigit(c) == \E i \in 1..10 : Digits[i] = c

DigitVal(c) == (CHOOSE i \in 1..10 : Digits[i] = c) - 1

\* s[a:b] of Python, 0-based, a and b already clamped to 0..len
Slice(s, a, b) == IF b <= a THEN <<>> ELSE SubSeq(s, a + 1, b)

SetMin(S) == CHOOSE x \in S : \A y \in S : x <= y

SetMax(S) == CHOOSE x \in S : \A y \in S : x >= y

\* index (1-based) of the first occurrence of c in s, 0 when absent
IndexOf(s, c) ==
    LET at == { i \in 1..Len(s) : s[i] = c }
    IN  IF at = {} THEN 0 ELSE SetMin(at)

\* str.split(sep): always at least one element, empty elements kept
RECURSIVE Split(_, _)
Split(s, sep) ==
    LET i == IndexOf(s, sep)
    IN  IF i = 0 THEN <<s>>
        ELSE <<Slice(s, 0, i - 1)>> \o Split(Slice(s, i, Len(s)), sep)

\* str.strip() for the blank
Strip(s) ==
    LET solid == { i \in 1..Len(s) : s[i] # " " }
    IN  IF solid = {} THEN <<>> ELSE SubSeq(s, SetMin(solid), SetMax(solid))

RECURSIVE DigitsValue(_, _)
DigitsValue(s, acc) ==
    IF s = <<>> THEN acc
    ELSE DigitsValue(Tail(s), 10 * acc + DigitVal(Head(s)))

\* int(text): blanks stripped, optional sign, one or more digits; ValueError otherwise
int(s) ==
    LET t    == Strip(s)
        neg  == t # <<>> /\ Head(t) = "-"
        sgn  == t # <<>> /\ Head(t) \in {"-", "+"}
        body == IF sgn THEN Tail(t) ELSE t
        ok   == body # <<>> /\ \A i \in 1..Len(body) : IsDigit(body[i])
    IN  IF ~ok THEN [err |-> TRUE, val |-> 0]
        ELSE [err |-> FALSE,
              val |-> IF neg THEN 0 - DigitsValue(body, 0) ELSE DigitsValue(body, 0)]

\* ";".join(parts)
RECURSIVE Join(_, _)
Join(parts, sep) ==
    IF parts = <<>> THEN <<>>
    ELSE IF Len(parts) = 1 THEN parts[1]
    ELSE parts[1] \o <<sep>> \o Join(Tail(parts), sep)

\* decimal text of a natural number
RECURSIVE str(_)
str(n) ==
    IF n < 10 THEN <<Digits[n + 1]>>
    ELSE str(n \div 10) \o <<Digits[(n % 10) + 1]>>

\* ------------------------------------------------------- dateutil constants

YEARLY   == 0
MONTHLY  == 1
WEEKLY   == 2
DAILY    == 3
HOURLY   == 4
MINUTELY == 5
SECONDLY == 6

MO == 0
TU == 1
WE == 2
TH == 3
FR == 4
SA == 5
SU == 6

\* ---------------------------------------------------------------- parsing

freq_map ==
    { <<<<"S","E","C","O","N","D","L","Y">>, SECONDLY>>,
      <<<<"M","I","N","U","T","E","L","Y">>, MINUTELY>>,
      <<<<"H","O","U","R","L","Y">>, HOURLY>>,
      <<<<"D","A","I","L","Y">>, DAILY>>,
      <<<<"W","E","E","K","L","Y">>, WEEKLY>>,
      <<<<"M","O","N","T","H","L","Y">>, MONTHLY>>,
      <<<<"Y","E","A","R","L","Y">>, YEARLY>> }

\* freq_map.get(freq_str, rrule.DAILY)
parse_rrule_frequency(freq_str) ==
    IF \E e \in freq_map : e[1] = freq_str
    THEN (CHOOSE e \in freq_map : e[1] = freq_str)[2]
    ELSE DAILY

weekday_map ==
    { <<<<"M","O">>, MO>>, <<<<"T","U">>, TU>>, <<<<"W","E">>, WE>>,
      <<<<"T","H">>, TH>>, <<<<"F","R">>, FR>>, <<<<"S","A">>, SA>>,
      <<<<"S","U">>, SU>> }

\* weekday_map.get(s): <<>> for None, <<w>> for a weekday
weekday_get(s) ==
    IF \E e \in weekday_map : e[1] = s
    THEN <<(CHOOSE e \in weekday_map : e[1] = s)[2]>>
    ELSE <<>>

\* The result of parse_weekday: err (an exception), or day = <<>> (None), or
\* day = <<[weekday, n]>> with n = 0 for a weekday without ordinal.
\* base_weekday(pos) raises ValueError for pos = 0.
positional_weekday(pos, base_weekday) ==
    IF pos.err THEN [err |-> TRUE, day |-> <<>>]
    ELSE IF base_weekday = <<>> THEN [err |-> FALSE, day |-> <<>>]
    ELSE IF pos.val = 0 THEN [err |-> TRUE, day |-> <<>>]
    ELSE [err |-> FALSE, day |-> <<[weekday |-> base_weekday[1], n |-> pos.val]>>]

bare_weekday(base_weekday) ==
    IF base_weekday = <<>> THEN [err |-> FALSE, day |-> <<>>]
    ELSE [err |-> FALSE, day |-> <<[weekday |-> base_weekday[1], n |-> 0]>>]

parse_weekday(day_str) ==
    IF Len(day_str) > 2
    THEN positional_weekday(int(Slice(day_str, 0, Len(day_str) - 2)),
                            weekday_get(Slice(day_str, Len(day_str) - 2, Len(day_str))))
    ELSE bare_weekday(weekday_get(day_str))

\* ------------------------------------------------------------- date texts

\* A datetime: local wall clock in ticks, and the UTC offset when aware.
NaiveDT(local) == [local |-> local, aware |-> FALSE, off |-> 0]

AwareDT(local, off) == [local |-> local, aware |-> TRUE, off |-> off]

\* the instant of an aware datetime on the UTC time line
utc(dt) == dt.local - dt.off

\* Date text: the tick number in decimal digits, optionally followed by a
\* zone designator: "Z" (UTC), "E" (+12:00) or "W" (-12:00).
zone_suffix == { <<"Z", 0>>, <<"E", 1>>, <<"W", 0 - 1>> }

\* dateutil.parser.parse: a datetime, naive unless the text carries a zone;
\* ParserError (a ValueError) for anything else
parse_date(text) ==
    LET n     == Len(text)
        zoned == n > 0 /\ \E z \in zone_suffix : z[1] = text[n]
        body  == IF zoned THEN Slice(text, 0, n - 1) ELSE text
        ok    == body # <<>> /\ \A i \in 1..Len(body) : IsDigit(body[i])
    IN  IF ~ok THEN [err |-> TRUE, dt |-> NaiveDT(0)]
        ELSE [err |-> FALSE,
              dt  |-> IF zoned
                      THEN AwareDT(DigitsValue(body, 0),
                                   (CHOOSE z \in zone_suffix : z[1] = text[n])[2])
                      ELSE NaiveDT(DigitsValue(body, 0))]

\* datetime.isoformat(): the local time followed by the offset of an aware value
isoformat(dt) ==
    str(dt.local) \o
    (IF ~dt.aware THEN <<>>
     ELSE IF dt.off = 0 THEN <<"+","0","0",":","0","0">>
     ELSE IF dt.off > 0 THEN <<"+","1","2",":","0","0">>
     ELSE <<"-","1","2",":","0","0">>)

\* Comparison of two datetimes: TypeError when exactly one is aware.
CanCompare(a, b) == a.aware = b.aware

dt_key(a) == IF a.aware THEN utc(a) ELSE a.local

dt_gt(a, b) == dt_key(a) > dt_key(b)

dt_ge(a, b) == dt_key(a) >= dt_key(b)

\* ------------------------------------------------------- parse_rrule_string

K_FREQ       == <<"F","R","E","Q">>
K_INTERVAL   == <<"I","N","T","E","R","V","A","L">>
K_COUNT      == <<"C","O","U","N","T">>
K_UNTIL      == <<"U","N","T","I","L">>
K_BYDAY      == <<"B","Y","D","A","Y">>
K_BYMONTHDAY == <<"B","Y","M","O","N","T","H","D","A","Y">>
K_BYMONTH    == <<"B","Y","M","O","N","T","H">>
K_BYSETPOS   == <<"B","Y","S","E","T","P","O","S">>
K_BYWEEKNO   == <<"B","Y","W","E","E","K","N","O">>
K_WKST       == <<"W","K","S","T">>

\* kwargs = {'dtstart': dtstart}; a key that is not set is the empty tuple
EmptyKwargs(dtstart) ==
    [dtstart |-> dtstart, freq |-> <<>>, interval |-> <<>>, count |-> <<>>,
     until |-> <<>>, byweekday |-> <<>>, bymonthday |-> <<>>, bymonth |-> <<>>,
     bysetpos |-> <<>>, byweekno |-> <<>>, wkst |-> <<>>]

\* [int(x.strip()) for x in value.split(',')]
int_results(vs) ==
    IF \E i \in 1..Len(vs) : vs[i].err THEN [err |-> TRUE, vals |-> <<>>]
    ELSE [err |-> FALSE, vals |-> [i \in 1..Len(vs) |-> vs[i].val]]

int_list(elems) == int_results([i \in 1..Len(elems) |-> int(elems[i])])

\* the BYDAY loop: a token parse_weekday maps to None is not appended
IsDay(parsed_day) == parsed_day.day # <<>>

DaysOf(kept) == [i \in 1..Len(kept) |-> kept[i].day[1]]

byday_results(parsed) ==
    IF \E i \in 1..Len(parsed) : parsed[i].err THEN [err |-> TRUE, vals |-> <<>>]
    ELSE [err |-> FALSE, vals |-> DaysOf(SelectSeq(parsed, IsDay))]

byday_list(elems) ==
    byday_results([i \in 1..Len(elems) |-> parse_weekday(Strip(elems[i]))])

\* kwargs[name] = vals for the four integer-list keys
IntListKeys == { K_BYMONTHDAY, K_BYMONTH, K_BYSETPOS, K_BYWEEKNO }

set_int_list(kwargs, key, vals) ==
    IF key = K_BYMONTHDAY THEN [kwargs EXCEPT !.bymonthday = vals]
    ELSE IF key = K_BYMONTH THEN [kwargs EXCEPT !.bymonth = vals]
    ELSE IF key = K_BYSETPOS THEN [kwargs EXCEPT !.bysetpos = vals]
    ELSE [kwargs EXCEPT !.byweekno = vals]

\* set_int with COUNT stored one too high
set_int_off_by_one(kwargs, key, val) ==
    IF key = K_INTERVAL THEN [kwargs EXCEPT !.interval = <<val>>]
    ELSE [kwargs EXCEPT !.count = <<val + 1>>]

\* kwargs[name] = int(value) for INTERVAL and COUNT
set_int(kwargs, key, val) ==
    IF key = K_INTERVAL THEN [kwargs EXCEPT !.interval = <<val>>]
    ELSE [kwargs EXCEPT !.count = <<val>>]

\* the outcome of one part: kwargs unchanged when the value raised
part_result(err, kwargs, updated) ==
    [err |-> err, kwargs |-> IF err THEN kwargs ELSE updated]

with_int(kwargs, key, v) == part_result(v.err, kwargs, set_int(kwargs, key, v.val))

with_until(kwargs, until_dt) ==
    part_result(until_dt.err, kwargs, [kwargs EXCEPT !.until = <<until_dt.dt>>])

\* "if weekdays:" and "if wkst_day:": nothing is stored for an empty list or None
with_byday(kwargs, weekdays) ==
    part_result(weekdays.err, kwargs,
                IF weekdays.vals = <<>> THEN kwargs
                ELSE [kwargs EXCEPT !.byweekday = weekdays.vals])

with_int_list(kwargs, key, vals) ==
    part_result(vals.err, kwargs, set_int_list(kwargs, key, vals.vals))

with_wkst(kwargs, wkst_day) ==
    part_result(wkst_day.err, kwargs,
                IF wkst_day.day = <<>> THEN kwargs
                ELSE [kwargs EXCEPT !.wkst = wkst_day.day])

\* the if/elif chain on the key of a part
parse_keyed(key, value, kwargs) ==
    IF key = K_FREQ
    THEN [err    |-> FALSE,
          kwargs |-> [kwargs EXCEPT !.freq = <<parse_rrule_frequency(value)>>]]
    ELSE IF key \in {K_INTERVAL, K_COUNT} THEN with_int(kwargs, key, int(value))
    ELSE IF key = K_UNTIL THEN with_until(kwargs, parse_date(value))
    ELSE IF key = K_BYDAY THEN with_byday(kwargs, byday_list(Split(value, ",")))
    ELSE IF key \in IntListKeys THEN with_int_list(kwargs, key, int_list(Split(value, ",")))
    ELSE IF key = K_WKST THEN with_wkst(kwargs, parse_weekday(value))
    ELSE [err |-> FALSE, kwargs |-> kwargs]

\* key, value = part.split('=', 1), for a part that holds "=" at index eq
split_part(part, eq, kwargs) ==
    parse_keyed(Slice(part, 0, eq - 1), Slice(part, eq, Len(part)), kwargs)

\* one iteration of "for part in parts": the kwargs after the part, or an error
parse_part(part, kwargs) ==
    IF IndexOf(part, "=") = 0 THEN [err |-> FALSE, kwargs |-> kwargs]
    ELSE split_part(part, IndexOf(part, "="), kwargs)

RECURSIVE parse_parts(_, _)
parse_rest(rest, r) == IF r.err THEN r ELSE parse_parts(rest, r.kwargs)

parse_parts(parts, kwargs) ==
    IF parts = <<>> THEN [err |-> FALSE, kwargs |-> kwargs]
    ELSE parse_rest(Tail(parts), parse_part(Head(parts), kwargs))

\* the keyword arguments parse_rrule_string collects before it builds the rule
parse_kwargs(rrule_str, dtstart) ==
    parse_parts(Split(rrule_str, ";"), EmptyKwargs(dtstart))

\* ------------------------------------------------ dateutil rrule (constructor)

\* rrule.rrule(**kwargs): TypeError without freq; ValueError when UNTIL and
\* DTSTART differ in awareness or a BYSETPOS value is 0 or beyond +-366.
\* An ordinal of a weekday is dropped for frequencies finer than MONTHLY; the
\* weekday of dtstart is the default of a WEEKLY rule without day filters.
\* (The month and month-day defaults of YEARLY and MONTHLY rules need a
\* calendar and are not part of the rule record.)
SeqToSet(s) == { s[i] : i \in 1..Len(s) }

rrule_new(kwargs) ==
    LET dtstart == kwargs.dtstart
        freqv   == kwargs.freq[1]
        nofilt  == kwargs.byweekno = <<>> /\ kwargs.bymonthday = <<>>
                   /\ kwargs.byweekday = <<>>
        plain   == { w.weekday : w \in { x \in SeqToSet(kwargs.byweekday) :
                                            x.n = 0 \/ freqv > MONTHLY } }
        nth     == { <<w.weekday, w.n>> : w \in { x \in SeqToSet(kwargs.byweekday) :
                                            ~(x.n = 0 \/ freqv > MONTHLY) } }
        failed  == [err |-> TRUE, rule |-> <<>>]
    IN  IF kwargs.freq = <<>> THEN failed
        ELSE IF kwargs.until # <<>> /\ kwargs.until[1].aware # dtstart.aware THEN failed
        ELSE IF \E p \in SeqToSet(kwargs.bysetpos) : p = 0 \/ p < 0 - 366 \/ p > 366
             THEN failed
        ELSE [err  |-> FALSE,
              rule |-> <<[dtstart    |-> dtstart,
                          freq       |-> freqv,
                          interval   |-> IF kwargs.interval = <<>> THEN 1
                                         ELSE kwargs.interval[1],
                          count      |-> kwargs.count,
                          until      |-> kwargs.until,
                          wkst       |-> IF kwargs.wkst = <<>> THEN MO
                                         ELSE kwargs.wkst[1].weekday,
                          bysetpos   |-> kwargs.bysetpos,
                          bymonth    |-> kwargs.bymonth,
                          bymonthday |-> kwargs.bymonthday,
                          byweekno   |-> kwargs.byweekno,
                          byweekday  |-> IF nofilt /\ freqv = WEEKLY
                                         THEN {(dtstart.local \div TicksPerDay)
                                                   % DaysPerWeek}
                                         ELSE plain,
                          bynweekday |-> nth]>>]

\* parse_rrule_string: the rule object, or the exception of the parse or of
\* the constructor
rrule_from(kw) == IF kw.err THEN [err |-> TRUE, rule |-> <<>>] ELSE rrule_new(kw.kwargs)

parse_rrule_string(rrule_str, dtstart) == rrule_from(parse_kwargs(rrule_str, dtstart))

\* --------------------------------------------------- dateutil rrule (iterator)

\* The iterator of a WEEKLY or DAILY rule, period by period as rrule._iter
\* does.  A period is one day (DAILY) or the days from the current day to the
\* eve of the next week start (WEEKLY).  Iteration ends when the period
\* would start after MaxDay.
StartDay(rule) == rule.dtstart.local \div TicksPerDay

\* days from the week start to dtstart's day
WeekOffset(rule) ==
    ((StartDay(rule) % DaysPerWeek) - rule.wkst + DaysPerWeek) % DaysPerWeek

PeriodStart(rule, k) ==
    IF rule.freq = WEEKLY
    THEN IF k = 0 THEN StartDay(rule)
         ELSE StartDay(rule) - WeekOffset(rule) + DaysPerWeek * rule.interval * k
    ELSE StartDay(rule) + rule.interval * k

PeriodEnd(rule, k) ==
    IF rule.freq = WEEKLY
    THEN IF k = 0 THEN StartDay(rule) - WeekOffset(rule) + DaysPerWeek
         ELSE PeriodStart(rule, k) + DaysPerWeek
    ELSE PeriodStart(rule, k) + 1

\* the days of the period that pass the weekday filter, ascending
RECURSIVE SortedSeq(_)
SortedSeq(S) ==
    IF S = {} THEN <<>>
    ELSE <<SetMin(S)>> \o SortedSeq(S \ {SetMin(S)})

dayset(rule, start, end) ==
    SortedSeq({ d \in start..(end - 1) :
                  /\ d <= MaxDay
                  /\ rule.byweekday = {} \/ (d % DaysPerWeek) \in rule.byweekday })

\* combine(date, time): the occurrence of a day, at dtstart's time and zone
OccurrenceOn(rule, d) ==
    [rule.dtstart EXCEPT
        !.local = d * TicksPerDay + (rule.dtstart.local % TicksPerDay)]

\* BYSETPOS: the positions (1-based, negative from the end) of the period's
\* days; a position outside the period selects nothing; the selection sorted
SetPosDays(days, bysetpos) ==
    { days[i] : i \in { j \in 1..Len(days) :
                          \E p \in SeqToSet(bysetpos) :
                              \/ p > 0 /\ j = p
                              \/ p < 0 /\ j = Len(days) + 1 + p } }

select_days(rule, days) ==
    IF rule.bysetpos # <<>> THEN SortedSeq(SetPosDays(days, rule.bysetpos))
    ELSE days

PeriodDays(rule, k) ==
    select_days(rule, dayset(rule, PeriodStart(rule, k), PeriodEnd(rule, k)))

\* the inner "for res in ..." loop: stop at the first res after UNTIL or once
\* COUNT occurrences were yielded
RECURSIVE emit(_, _, _, _)
emit_res(rule, rest, count, acc, res, late, yield) ==
    IF late \/ (yield /\ count # <<>> /\ count[1] - 1 < 0)
    THEN [stop |-> TRUE, count |-> count, acc |-> acc]
    ELSE emit(rule, rest,
              IF yield /\ count # <<>> THEN <<count[1] - 1>> ELSE count,
              IF yield THEN Append(acc, res) ELSE acc)

emit_day(rule, rest, count, acc, res) ==
    emit_res(rule, rest, count, acc, res,
             rule.until # <<>> /\ dt_gt(res, rule.until[1]),
             dt_ge(res, rule.dtstart))

emit(rule, days, count, acc) ==
    IF days = <<>> THEN [stop |-> FALSE, count |-> count, acc |-> acc]
    ELSE emit_day(rule, Tail(days), count, acc, OccurrenceOn(rule, Head(days)))

RECURSIVE iter_from(_, _, _, _)
iter_next(rule, k, r) ==
    IF r.stop THEN r.acc ELSE iter_from(rule, k + 1, r.count, r.acc)

iter_from(rule, k, count, acc) ==
    IF PeriodStart(rule, k) > MaxDay THEN acc
    ELSE iter_next(rule, k, emit(rule, PeriodDays(rule, k), count, acc))

\* iter(rule): everything the iterator yields, in the order it yields it
rule_iter(rule) == iter_from(rule, 0, rule.count, <<>>)

\* ------------------------------------------------------ generate_occurrences

\* dateutil.tz.gettz(name): the zone's offset, or None (<<>>) for a name the
\* zone database does not know
zone_db == { <<"Etc/GMT-12", 1>>, <<"Etc/GMT+12", 0 - 1>>, <<"Etc/UTC", 0>> }

gettz(name) ==
    IF \E z \in zone_db : z[1] = name
    THEN <<(CHOOSE z \in zone_db : z[1] = name)[2]>>
    ELSE <<>>

\* dt.replace(tzinfo=tz); tz = None leaves the datetime naive
replace_tzinfo(dt, tz) ==
    IF tz = <<>> THEN NaiveDT(dt.local) ELSE AwareDT(dt.local, tz[1])

\* input_data.get('timezone', 'UTC')
timezone_of(input_data) ==
    IF input_data.timezone = <<>> THEN "UTC" ELSE input_data.timezone[1]

\* tz = gettz(timezone_str) if timezone_str != 'UTC' else UTC
parse_timezone(input_data) ==
    IF timezone_of(input_data) # "UTC" THEN gettz(timezone_of(input_data)) ELSE <<0>>

\* parse_date(text), then the rule-level zone when the result is naive
inherit_zone(d, tz) ==
    IF d.err THEN d
    ELSE IF ~d.dt.aware THEN [err |-> FALSE, dt |-> replace_tzinfo(d.dt, tz)]
    ELSE d

resolve_date(text, tz) == inherit_zone(parse_date(text), tz)

\* range_step with the end of the range exclusive
range_step_exclusive_end(occurrence, range_start, range_end, occurrences) ==
    IF ~CanCompare(occurrence, range_end)
    THEN [err |-> TRUE, brk |-> FALSE, occurrences |-> occurrences]
    ELSE IF dt_ge(occurrence, range_end)
    THEN [err |-> FALSE, brk |-> TRUE, occurrences |-> occurrences]
    ELSE IF ~CanCompare(occurrence, range_start)
    THEN [err |-> TRUE, brk |-> FALSE, occurrences |-> occurrences]
    ELSE IF dt_ge(occurrence, range_start)
    THEN [err |-> FALSE, brk |-> FALSE, occurrences |-> Append(occurrences, occurrence)]
    ELSE [err |-> FALSE, brk |-> FALSE, occurrences |-> occurrences]

\* range_step that discards an occurrence after range_end instead of breaking
range_step_no_break(occurrence, range_start, range_end, occurrences) ==
    IF ~CanCompare(occurrence, range_end)
    THEN [err |-> TRUE, brk |-> FALSE, occurrences |-> occurrences]
    ELSE IF dt_gt(occurrence, range_end)
    THEN [err |-> FALSE, brk |-> FALSE, occurrences |-> occurrences]
    ELSE IF ~CanCompare(occurrence, range_start)
    THEN [err |-> TRUE, brk |-> FALSE, occurrences |-> occurrences]
    ELSE IF dt_ge(occurrence, range_start)
    THEN [err |-> FALSE, brk |-> FALSE, occurrences |-> Append(occurrences, occurrence)]
    ELSE [err |-> FALSE, brk |-> FALSE, occurrences |-> occurrences]

\* the body of "for occurrence in rule": a TypeError when the occurrence and
\* an endpoint differ in awareness, break after range_end, append from
\* range_start on
range_step(occurrence, range_start, range_end, occurrences) ==
    IF ~CanCompare(occurrence, range_end)
    THEN [err |-> TRUE, brk |-> FALSE, occurrences |-> occurrences]
    ELSE IF dt_gt(occurrence, range_end)
    THEN [err |-> FALSE, brk |-> TRUE, occurrences |-> occurrences]
    ELSE IF ~CanCompare(occurrence, range_start)
    THEN [err |-> TRUE, brk |-> FALSE, occurrences |-> occurrences]
    ELSE IF dt_ge(occurrence, range_start)
    THEN [err |-> FALSE, brk |-> FALSE, occurrences |-> Append(occurrences, occurrence)]
    ELSE [err |-> FALSE, brk |-> FALSE, occurrences |-> occurrences]

RECURSIVE range_loop(_, _, _, _)
range_next(rest, range_start, range_end, r) ==
    IF r.err THEN [err |-> TRUE, occurrences |-> <<>>]
    ELSE IF r.brk THEN [err |-> FALSE, occurrences |-> r.occurrences]
    ELSE range_loop(rest, range_start, range_end, r.occurrences)

range_loop(it, range_start, range_end, occurrences) ==
    IF it = <<>> THEN [err |-> FALSE, occurrences |-> occurrences]
    ELSE range_next(Tail(it), range_start, range_end,
                    range_step(Head(it), range_start, range_end, occurrences))

\* [occ.isoformat() for occ in occurrences]
iso_list(occurrences) == [i \in 1..Len(occurrences) |-> isoformat(occurrences[i])]

\* generate_occurrences as a whole: the list of ISO strings, or an exception
Raised == [err |-> TRUE, result |-> <<>>]

serialize_loop(looped) ==
    IF looped.err THEN Raised
    ELSE [err |-> FALSE, result |-> iso_list(looped.occurrences)]

filter_range(rule, rs, re) ==
    IF rs.err \/ re.err THEN Raised
    ELSE serialize_loop(range_loop(rule_iter(rule), rs.dt, re.dt, <<>>))

expand_rule(input_data, tz, rule) ==
    IF rule.err THEN Raised
    ELSE IF input_data.range # <<>>
    THEN filter_range(rule.rule[1],
                      resolve_date(input_data.range[1].start, tz),
                      resolve_date(input_data.range[1].end, tz))
    ELSE [err |-> FALSE, result |-> iso_list(rule_iter(rule.rule[1]))]

expand_from(input_data, tz, dtstart) ==
    IF dtstart.err THEN Raised
    ELSE expand_rule(input_data, tz, parse_rrule_string(input_data.rrule, dtstart.dt))

expand_in(input_data, tz) ==
    expand_from(input_data, tz, resolve_date(input_data.dtstart, tz))

generate_occurrences(input_data) == expand_in(input_data, parse_timezone(input_data))

\* ------------------------------------------------------------------ inputs

T(key, value) == key \o <<"=">> \o value

V_DAILY  == <<"D","A","I","L","Y">>
V_WEEKLY == <<"W","E","E","K","L","Y">>

\* each choice is the list of parts it contributes to the RRULE text; "daily"
\* is a FREQ value no key of freq_map equals
FreqChoices ==
    { <<>>, <<T(K_FREQ, V_DAILY)>>, <<T(K_FREQ, V_WEEKLY)>>,
      <<T(K_FREQ, <<"d","a","i","l","y">>)>> }

LimitChoices ==
    { <<>>,
      <<T(K_COUNT, <<"2">>)>>,
      <<T(K_UNTIL, <<"9","Z">>)>>,
      <<T(K_COUNT, <<"3">>), T(K_UNTIL, <<"5","Z">>)>>,
      <<T(K_INTERVAL, <<"2">>), T(K_COUNT, <<"3">>)>>,
      <<T(K_COUNT, <<"x">>)>> }

ByChoices ==
    { <<>>,
      <<T(K_BYDAY, <<"M","O",",","W","E">>)>>,
      <<T(K_BYDAY, <<"X","X">>)>>,
      <<T(K_BYDAY, <<"T","U",",","X","X">>)>>,
      <<T(K_BYDAY, <<"T","U",","," ","F","R",",">>)>>,
      <<T(K_BYDAY, <<"0","M","O">>)>>,
      <<T(K_BYDAY, <<"-","1","F","R">>)>>,
      <<T(K_BYSETPOS, <<"-","1">>)>>,
      <<T(K_BYSETPOS, <<"2">>)>>,
      <<T(K_BYDAY, <<"M","O",",","W","E">>), T(K_BYSETPOS, <<"-","1">>)>>,
      <<T(K_WKST, <<"S","U">>)>>,
      <<T(K_WKST, <<"X","X">>), T(K_BYDAY, <<"W","E">>)>> }

RuleTexts ==
    { Join(f \o l \o b, ";") : f \in FreqChoices, l \in LimitChoices, b \in ByChoices }

\* dtstart texts: Monday 00:00 naive, Tuesday 12:00 UTC, Tuesday 00:00 +12:00
StartTexts == { <<"0">>, <<"3","Z">>, <<"2","E">> }

\* the timezone key: absent, a zone gettz knows, a name it does not know
Timezones == { <<>>, <<"Etc/GMT+12">>, <<"Mars/Phobos">> }

\* the range key: absent, naive endpoints, UTC endpoints, endpoints in two zones
Ranges ==
    { <<>>,
      <<[start |-> <<"2">>, end |-> <<"7">>]>>,
      <<[start |-> <<"4","Z">>, end |-> <<"1","1","Z">>]>>,
      <<[start |-> <<"3","E">>, end |-> <<"8","W">>]>> }

Inputs ==
    [rrule : RuleTexts, dtstart : StartTexts, timezone : Timezones, range : Ranges]

\* -------------------------------------------------------------- input files

\* An input file after yaml.safe_load: yaml is FALSE when reading or loading
\* raises (or the document is not a mapping); keys are the top-level keys,
\* meta the keys of the metadata section, input the rule input of a legacy
\* file, cases the test_cases list.  A test case is its keys and its rule input.
RuleInput(parts, range) ==
    [rrule |-> Join(parts, ";"), dtstart |-> <<"3","Z">>, timezone |-> <<>>,
     range |-> range]

InputCount == RuleInput(<<T(K_FREQ, V_DAILY), T(K_COUNT, <<"2">>)>>, <<>>)

InputRange ==
    RuleInput(<<T(K_FREQ, V_DAILY)>>,
              <<[start |-> <<"4","Z">>, end |-> <<"1","1","Z">>]>>)

\* COUNT=x: int() raises ValueError
InputRaising == RuleInput(<<T(K_FREQ, V_DAILY), T(K_COUNT, <<"x">>)>>, <<>>)

CaseChoices ==
    { [keys |-> {"rrule", "dtstart"}, input |-> InputCount],
      [keys |-> {"rrule", "dtstart"}, input |-> InputRange],
      [keys |-> {"rrule", "dtstart"}, input |-> InputRaising],
      [keys |-> {"rrule"}, input |-> InputCount] }

CaseLists == UNION { [1..n -> CaseChoices] : n \in 1..MaxCases }

FileOf(yaml, keys, meta, inp, cases) ==
    [yaml |-> yaml, keys |-> keys, meta |-> meta, input |-> inp, cases |-> cases]

FileChoices ==
    { FileOf(FALSE, {}, {}, InputCount, <<>>) }
    \cup { FileOf(TRUE, {"name", "rrule", "dtstart"}, {}, i, <<>>) :
             i \in {InputCount, InputRaising} }
    \cup { FileOf(TRUE, {"rrule", "dtstart"}, {}, InputCount, <<>>) }
    \cup { FileOf(TRUE, {"metadata", "test_cases"}, {"name", "category"}, InputCount, c) :
             c \in CaseLists \cup {<<>>} }
    \cup { FileOf(TRUE, {"test_cases"}, {}, InputCount, <<CHOOSE c \in CaseChoices : TRUE>>),
           FileOf(TRUE, {"metadata", "test_cases"}, {"name"}, InputCount,
                  <<CHOOSE c \in CaseChoices : TRUE>>) }

FileLists == UNION { [1..n -> FileChoices] : n \in 0..MaxFiles }

\* the result of processing a file: the returned flag and the output written
\* (<<>> when none is): the expected_occurrences of each test case in order
Failed == [ok |-> FALSE, output |-> <<>>]

\* 'rrule' in input_data and 'test_cases' not in input_data
is_legacy_format(file) == "rrule" \in file.keys /\ "test_cases" \notin file.keys

legacy_output(g) ==
    IF g.err THEN Failed ELSE [ok |-> TRUE, output |-> <<<<g.result>>>>]

process_legacy_format(file) ==
    IF ~({"name", "rrule", "dtstart"} \subseteq file.keys) THEN Failed
    ELSE legacy_output(generate_occurrences(file.input))

\* the loop over test_cases: the first missing field or exception returns False
RECURSIVE cases_loop(_, _)
case_next(rest, output_test_cases, g) ==
    IF g.err THEN Failed
    ELSE cases_loop(rest, Append(output_test_cases, g.result))

cases_loop(test_cases, output_test_cases) ==
    IF test_cases = <<>> THEN [ok |-> TRUE, output |-> <<output_test_cases>>]
    ELSE IF ~({"rrule", "dtstart"} \subseteq Head(test_cases).keys) THEN Failed
    ELSE case_next(Tail(test_cases), output_test_cases,
                   generate_occurrences(Head(test_cases).input))

process_multi_test_format(file) ==
    IF "metadata" \notin file.keys THEN Failed
    ELSE IF "test_cases" \notin file.keys THEN Failed
    ELSE IF ~({"name", "category"} \subseteq file.meta) THEN Failed
    ELSE IF Len(file.cases) = 0 THEN Failed
    ELSE cases_loop(file.cases, <<>>)

\* every exception of reading, loading or processing is caught: False
process_input_file(file) ==
    IF ~file.yaml THEN Failed
    ELSE IF is_legacy_format(file) THEN process_legacy_format(file)
    ELSE process_multi_test_format(file)

\* exit_code that is content with one successful file
exit_code_any_success(success_count, n) ==
    IF success_count > 0 \/ n = 0 THEN 0 ELSE 1

\* return 0 if success_count == len(input_files) else 1
exit_code(success_count, n) == IF success_count = n THEN 0 ELSE 1

\* ------------------------------------------------------------------- state

VARIABLES
    input,          \* the rule input record handed to generate_occurrences
    pc,             \* position in generate_occurrences
    tz,             \* the rule-level zone (<<>> is None)
    dtstart,        \* <<datetime>> once resolved
    rule,           \* <<rule>> once parse_rrule_string returned
    range_start,    \* <<datetime>> once resolved
    range_end,      \* <<datetime>> once resolved
    it,             \* what the rule's iterator has still to yield
    pulled,         \* the occurrences the iterator was asked for so far
    occurrences,    \* the list being collected
    outcome,        \* "running", "ok" or "error"
    result,         \* the returned list of ISO strings
    dir_exists,     \* whether the input directory exists
    input_files,    \* the files of the input directory, in glob order
    bpc,            \* position in generate_all_fixtures
    done_files,     \* the flags process_input_file returned so far, in order
    success_count,  \* the counter of generate_all_fixtures
    written,        \* the outputs written so far, one entry per processed file
    exit            \* <<code>> once generate_all_fixtures returned

expansion == <<input, pc, tz, dtstart, rule, range_start, range_end, it, pulled,
               occurrences, outcome, result>>

batch == <<dir_exists, input_files, bpc, done_files, success_count, written, exit>>

vars == <<expansion, batch>>

NoExpansion ==
    /\ input = InputCount
    /\ pc = "idle"
    /\ tz = <<>>
    /\ dtstart = <<>>
    /\ rule = <<>>
    /\ range_start = <<>>
    /\ range_end = <<>>
    /\ it = <<>>
    /\ pulled = <<>>
    /\ occurrences = <<>>
    /\ outcome = "running"
    /\ result = <<>>

NoBatch ==
    /\ dir_exists = TRUE
    /\ input_files = <<>>
    /\ bpc = "idle"
    /\ done_files = <<>>
    /\ success_count = 0
    /\ written = <<>>
    /\ exit = <<>>

\* one call of generate_occurrences
Init ==
    /\ input \in Inputs
    /\ pc = "resolve"
    /\ tz = <<>>
    /\ dtstart = <<>>
    /\ rule = <<>>
    /\ range_start = <<>>
    /\ range_end = <<>>
    /\ it = <<>>
    /\ pulled = <<>>
    /\ occurrences = <<>>
    /\ outcome = "running"
    /\ result = <<>>
    /\ NoBatch

\* one call of generate_all_fixtures
InitBatch ==
    /\ dir_exists \in BOOLEAN
    /\ input_files \in FileLists
    /\ dir_exists = FALSE => input_files = <<>>
    /\ bpc = "start"
    /\ done_files = <<>>
    /\ success_count = 0
    /\ written = <<>>
    /\ exit = <<>>
    /\ NoExpansion

\* an exception leaves generate_occurrences
Raise ==
    /\ pc' = "done"
    /\ outcome' = "error"
    /\ result' = <<>>

\* lines 137-148: the zone and the start date
ResolveTo(d) ==
    IF d.err
    THEN Raise /\ UNCHANGED dtstart
    ELSE /\ dtstart' = <<d.dt>>
         /\ pc' = "parse"
         /\ UNCHANGED <<outcome, result>>

Resolve ==
    /\ pc = "resolve"
    /\ tz' = parse_timezone(input)
    /\ ResolveTo(resolve_date(input.dtstart, tz'))
    /\ UNCHANGED <<input, rule, range_start, range_end, it, pulled, occurrences>>
    /\ UNCHANGED batch

\* line 151, and the branch of line 156
ParseTo(r) ==
    IF r.err
    THEN Raise /\ UNCHANGED <<rule, it>>
    ELSE /\ rule' = r.rule
         /\ it' = rule_iter(r.rule[1])
         /\ pc' = IF input.range # <<>> THEN "range" ELSE "list"
         /\ UNCHANGED <<outcome, result>>

ParseRule ==
    /\ pc = "parse"
    /\ ParseTo(parse_rrule_string(input.rrule, dtstart[1]))
    /\ UNCHANGED <<input, tz, dtstart, range_start, range_end, pulled, occurrences>>
    /\ UNCHANGED batch

\* lines 158-164: the endpoints of the range
RangeTo(rs, re) ==
    IF rs.err \/ re.err
    THEN Raise /\ UNCHANGED <<range_start, range_end>>
    ELSE /\ range_start' = <<rs.dt>>
         /\ range_end' = <<re.dt>>
         /\ pc' = "loop"
         /\ UNCHANGED <<outcome, result>>

ResolveRange ==
    /\ pc = "range"
    /\ RangeTo(resolve_date(input.range[1].start, tz),
               resolve_date(input.range[1].end, tz))
    /\ UNCHANGED <<input, tz, dtstart, rule, it, pulled, occurrences>>
    /\ UNCHANGED batch

\* lines 166-170: one turn of the range loop, or its end when the iterator is
\* exhausted
FilterTo(r) ==
    IF r.err
    THEN Raise /\ UNCHANGED occurrences
    ELSE /\ occurrences' = r.occurrences
         /\ pc' = IF r.brk THEN "serialize" ELSE "loop"
         /\ UNCHANGED <<outcome, result>>

FilterPull ==
    /\ pc = "loop"
    /\ IF it = <<>>
       THEN /\ pc' = "serialize"
            /\ UNCHANGED <<it, pulled, occurrences, outcome, result>>
       ELSE /\ it' = Tail(it)
            /\ pulled' = Append(pulled, Head(it))
            /\ FilterTo(range_step(Head(it), range_start[1], range_end[1], occurrences))
    /\ UNCHANGED <<input, tz, dtstart, rule, range_start, range_end>>
    /\ UNCHANGED batch

\* line 173: list(rule), one occurrence at a time
ListPull ==
    /\ pc = "list"
    /\ IF it = <<>>
       THEN /\ pc' = "serialize"
            /\ UNCHANGED <<it, pulled, occurrences>>
       ELSE /\ it' = Tail(it)
            /\ pulled' = Append(pulled, Head(it))
            /\ occurrences' = Append(occurrences, Head(it))
            /\ pc' = "list"
    /\ UNCHANGED <<input, tz, dtstart, rule, range_start, range_end, outcome, result>>
    /\ UNCHANGED batch

\* line 176
Serialize ==
    /\ pc = "serialize"
    /\ result' = iso_list(occurrences)
    /\ outcome' = "ok"
    /\ pc' = "done"
    /\ UNCHANGED <<input, tz, dtstart, rule, range_start, range_end, it, pulled,
                   occurrences>>
    /\ UNCHANGED batch

Next ==
    \/ Resolve
    \/ ParseRule
    \/ ResolveRange
    \/ FilterPull
    \/ ListPull
    \/ Serialize

Spec == Init /\ [][Next]_vars

\* ------------------------------------------------------ generate_all_fixtures

\* lines 321-330: the directory check and the glob
StartBatch ==
    /\ bpc = "start"
    /\ IF ~dir_exists THEN bpc' = "done" /\ exit' = <<1>>
       ELSE IF input_files = <<>> THEN bpc' = "done" /\ exit' = <<0>>
       ELSE bpc' = "loop" /\ exit' = exit
    /\ UNCHANGED <<dir_exists, input_files, done_files, success_count, written>>
    /\ UNCHANGED expansion

\* lines 333-335: one turn of the loop over input_files
Processed(r) ==
    /\ done_files' = Append(done_files, r.ok)
    /\ written' = Append(written, r.output)
    /\ success_count' = IF r.ok THEN success_count + 1 ELSE success_count

ProcessFile ==
    /\ bpc = "loop"
    /\ Len(done_files) < Len(input_files)
    /\ Processed(process_input_file(input_files[Len(done_files) + 1]))
    /\ UNCHANGED <<dir_exists, input_files, bpc, exit>>
    /\ UNCHANGED expansion

\* lines 337-338
FinishBatch ==
    /\ bpc = "loop"
    /\ Len(done_files) = Len(input_files)
    /\ bpc' = "done"
    /\ exit' = <<exit_code(success_count, Len(input_files))>>
    /\ UNCHANGED <<dir_exists, input_files, done_files, success_count, written>>
    /\ UNCHANGED expansion

NextBatch ==
    \/ StartBatch
    \/ ProcessFile
    \/ FinishBatch

SpecBatch == InitBatch /\ [][NextBatch]_vars

\* the step-by-step run returns what generate_occurrences returns
Returned(g) == g.err = (outcome = "error") /\ g.result = result

StepwiseAgrees == pc = "done" => Returned(generate_occurrences(input))


\* ------------------------------------------------------- reading an RRULE text

\* What a reader of the RRULE text sees: its KEY=value parts, the keys that
\* occur, the values of a key.
HasEq(part) == IndexOf(part, "=") > 0

PartKey(part) == Slice(part, 0, IndexOf(part, "=") - 1)

PartValue(part) == Slice(part, IndexOf(part, "="), Len(part))

KeyedParts(text, key) ==
    { p \in SeqToSet(Split(text, ";")) : HasEq(p) /\ PartKey(p) = key }

HasKey(text, key) == KeyedParts(text, key) # {}

\* the value of the last part with the key (a later part overrides an earlier)
LastValue(text, key) ==
    LET parts == Split(text, ";")
        at    == { i \in 1..Len(parts) : HasEq(parts[i]) /\ PartKey(parts[i]) = key }
    IN  PartValue(parts[SetMax(at)])

WeekdayCodes == { e[1] : e \in weekday_map }

\* a weekday token whose trailing two characters are no weekday code
BadWeekdayToken(tok) ==
    Len(tok) < 2 \/ Slice(tok, Len(tok) - 2, Len(tok)) \notin WeekdayCodes

HasBadWeekday(text) ==
    \/ \E p \in KeyedParts(text, K_BYDAY) :
           \E e \in SeqToSet(Split(PartValue(p), ",")) : BadWeekdayToken(Strip(e))
    \/ \E p \in KeyedParts(text, K_WKST) : BadWeekdayToken(PartValue(p))

Parsed == pc \notin {"idle", "resolve", "parse"}

Finished == pc = "done"

\* -------------------------------------------------------------------- C1

InRange(o) == dt_ge(o, range_start[1]) /\ ~dt_gt(o, range_end[1])

\* C1: with a range, the returned list is the rule's full expansion filtered
\* to range.start <= o <= range.end, in the iterator's order.
C1_RangeIsFilter ==
    (Finished /\ outcome = "ok" /\ input.range # <<>>) =>
        result = iso_list(SelectSeq(rule_iter(rule[1]), InRange))

\* a run that dropped an occurrence before the range and stopped at one after it
C1_Witness ==
    /\ Finished /\ outcome = "ok" /\ input.range # <<>>
    /\ Len(result) >= 2
    /\ Len(pulled) >= Len(result) + 2
    /\ ~dt_ge(pulled[1], range_start[1])
    /\ it # <<>>

\* -------------------------------------------------------------------- C2

\* C2: without range, COUNT and UNTIL the expansion asks the iterator for
\* nothing and ends in an error.
C2_AsClaimed ==
    ( /\ input.range = <<>>
      /\ ~HasKey(input.rrule, K_COUNT)
      /\ ~HasKey(input.rrule, K_UNTIL) ) =>
        /\ pulled = <<>>
        /\ Finished => outcome = "error"

\* -------------------------------------------------------------------- C3

BeyondEnd(o) == CanCompare(o, range_end[1]) /\ dt_gt(o, range_end[1])

BeforeStart(o) ==
    /\ CanCompare(o, range_end[1]) /\ ~dt_gt(o, range_end[1])
    /\ CanCompare(o, range_start[1]) /\ ~dt_ge(o, range_start[1])

\* C3: the first occurrence pulled that is after range.end is the last one
\* pulled and is not collected; an occurrence before range.start is not
\* collected and the loop goes on (it ends only when the iterator is exhausted).
C3_StopsAtFirstBeyondEnd ==
    range_end # <<>> =>
        \A i \in 1..Len(pulled) :
            /\ BeyondEnd(pulled[i]) =>
                   /\ i = Len(pulled)
                   /\ pc # "loop"
                   /\ pulled[i] \notin SeqToSet(occurrences)
            /\ BeforeStart(pulled[i]) =>
                   /\ pulled[i] \notin SeqToSet(occurrences)
                   /\ i = Len(pulled) => (pc = "loop" \/ it = <<>>)

\* a run that discarded an early occurrence, kept one and stopped at a late one
C3_Witness ==
    /\ Finished /\ outcome = "ok" /\ range_end # <<>>
    /\ Len(pulled) >= 3
    /\ BeforeStart(pulled[1])
    /\ BeyondEnd(pulled[Len(pulled)])
    /\ occurrences # <<>>
    /\ it # <<>>

\* -------------------------------------------------------------------- C4

\* C4: a rule with a BYDAY or WKST token that ends in no weekday code does
\* not get past parsing: the expansion ends in an error.
C4_AsClaimed ==
    HasBadWeekday(input.rrule) => (~Parsed \/ (Finished /\ outcome = "error"))

\* -------------------------------------------------------------------- C5

FreqNames == { e[1] : e \in freq_map }

NamedFreq(name) == (CHOOSE e \in freq_map : e[1] = name)[2]

\* the same text with FREQ=DAILY in front
WithDaily(text) == T(K_FREQ, V_DAILY) \o <<";">> \o text

\* C5: a text without FREQ parses like the same text with FREQ=DAILY, to a
\* DAILY rule; an unrecognized FREQ value gives DAILY; a recognized one gives
\* the frequency it names.
C5_AsClaimed ==
    Parsed =>
        /\ ( /\ ~HasKey(input.rrule, K_FREQ)
             /\ ~parse_rrule_string(WithDaily(input.rrule), dtstart[1]).err )
           => (rule # <<>> /\ rule[1].freq = DAILY)
        /\ (HasKey(input.rrule, K_FREQ) /\ rule # <<>>)
           => rule[1].freq =
                  IF LastValue(input.rrule, K_FREQ) \in FreqNames
                  THEN NamedFreq(LastValue(input.rrule, K_FREQ))
                  ELSE DAILY

\* -------------------------------------------------------------------- C7

\* C7: after resolution the anchor and both endpoints are aware, and an
\* occurrence can be compared with the endpoints.
C7_AsClaimed ==
    /\ dtstart # <<>> => dtstart[1].aware
    /\ range_start # <<>> => (range_start[1].aware /\ range_end[1].aware)
    /\ range_end # <<>> =>
           \A i \in 1..Len(pulled) :
               CanCompare(pulled[i], range_end[1]) /\ CanCompare(pulled[i], range_start[1])

\* -------------------------------------------------------------------- C8

CountOf(text) == int(LastValue(text, K_COUNT)).val

FirstN(s, n) == IF n <= 0 THEN <<>> ELSE SubSeq(s, 1, IF n < Len(s) THEN n ELSE Len(s))

\* everything the parsed rule yields when its COUNT is taken away
WithoutCount == rule_iter([rule[1] EXCEPT !.count = <<>>])

\* what the rule yields when neither COUNT nor UNTIL limits it
Unlimited == rule_iter([rule[1] EXCEPT !.count = <<>>, !.until = <<>>])

\* a text whose FREQ names a frequency and whose weekday tokens are all codes
WellFormed(text) ==
    /\ HasKey(text, K_FREQ) /\ LastValue(text, K_FREQ) \in FreqNames
    /\ ~HasBadWeekday(text)

\* C8 as claimed: COUNT = N and no range give exactly N occurrences, COUNT = N
\* and a range at most N.  (Rules that the last representable day cuts
\* short of N are left aside.)
C8_AsClaimed ==
    ( /\ Finished /\ outcome = "ok"
      /\ HasKey(input.rrule, K_COUNT)
      /\ WellFormed(input.rrule)
      /\ Len(Unlimited) >= CountOf(input.rrule) ) =>
        IF input.range = <<>>
        THEN Len(result) = CountOf(input.rrule)
        ELSE Len(result) <= CountOf(input.rrule)

\* C8: COUNT = N and no range give the first N occurrences of the same rule
\* without COUNT, all of them when there are fewer than N; with a range, those
\* of them that lie in the range.
C8_CountIsPrefix ==
    (Finished /\ outcome = "ok" /\ HasKey(input.rrule, K_COUNT)) =>
        /\ Len(result) <= CountOf(input.rrule) \/ (CountOf(input.rrule) < 0 /\ result = <<>>)
        /\ IF input.range = <<>>
           THEN occurrences = FirstN(WithoutCount, CountOf(input.rrule))
           ELSE occurrences = SelectSeq(FirstN(WithoutCount, CountOf(input.rrule)), InRange)

\* a rule with COUNT=3 that UNTIL ends after two occurrences
C8_Witness ==
    /\ Finished /\ outcome = "ok" /\ input.range = <<>>
    /\ HasKey(input.rrule, K_COUNT) /\ HasKey(input.rrule, K_UNTIL)
    /\ CountOf(input.rrule) = 3
    /\ Len(result) = 2
    /\ Len(Unlimited) >= 3

\* -------------------------------------------------------------------- C9

OtherByKeys == { K_BYDAY, K_BYMONTHDAY, K_BYMONTH, K_BYWEEKNO }

\* C9: BYSETPOS without any other BY* filter ends in an error.
C9_AsClaimed ==
    ( /\ Finished
      /\ HasKey(input.rrule, K_BYSETPOS)
      /\ \A k \in OtherByKeys : ~HasKey(input.rrule, k) ) => outcome = "error"

\* ------------------------------------------------------------- C6 and C10

BatchDone == bpc = "done"

CaseGood(c) == {"rrule", "dtstart"} \subseteq c.keys /\ ~generate_occurrences(c.input).err

\* a multi-test file whose structure passes the checks before the loop
WellFormedMulti(f) ==
    /\ f.yaml /\ ~is_legacy_format(f)
    /\ {"metadata", "test_cases"} \subseteq f.keys
    /\ {"name", "category"} \subseteq f.meta
    /\ f.cases # <<>>

FileGood(f) ==
    /\ f.yaml
    /\ IF is_legacy_format(f)
       THEN "name" \in f.keys /\ "dtstart" \in f.keys /\ ~generate_occurrences(f.input).err
       ELSE WellFormedMulti(f) /\ \A j \in 1..Len(f.cases) : CaseGood(f.cases[j])

AllFieldsPresent(f) ==
    \A j \in 1..Len(f.cases) : {"rrule", "dtstart"} \subseteq f.cases[j].keys

\* C6: in a multi-test file whose test cases all have their fields, the
\* occurrence list of every test case that expands without error is produced,
\* whatever the expansion of the other test cases of the file does.
C6_AsClaimed ==
    BatchDone =>
        \A i \in 1..Len(done_files) :
            (WellFormedMulti(input_files[i]) /\ AllFieldsPresent(input_files[i])) =>
                \A j \in 1..Len(input_files[i].cases) :
                    CaseGood(input_files[i].cases[j]) =>
                        /\ written[i] # <<>>
                        /\ \E k \in 1..Len(written[i][1]) :
                               written[i][1][k] =
                                   generate_occurrences(input_files[i].cases[j].input).result

\* C10: every file is processed once, also after a failure; the exit code is 0
\* exactly when every file succeeded, 1 for a failure or a missing directory;
\* a multi-test file with a test case that lacks a field or raises fails and
\* writes nothing.
C10_ExitCode ==
    BatchDone =>
        /\ exit # <<>>
        /\ dir_exists => Len(done_files) = Len(input_files)
        /\ \A i \in 1..Len(done_files) : done_files[i] = FileGood(input_files[i])
        /\ exit = <<0>> <=> (dir_exists /\ \A i \in 1..Len(input_files) : FileGood(input_files[i]))
        /\ exit = <<1>> <=> (~dir_exists \/ \E i \in 1..Len(input_files) : ~FileGood(input_files[i]))
        /\ \A i \in 1..Len(done_files) :
               ( /\ WellFormedMulti(input_files[i])
                 /\ \E j \in 1..Len(input_files[i].cases) : ~CaseGood(input_files[i].cases[j]) )
               => (~done_files[i] /\ written[i] = <<>>)

\* a batch whose first file fails on its second test case and whose second
\* file is processed all the same
C10_Witness ==
    /\ BatchDone
    /\ Len(input_files) = 2
    /\ WellFormedMulti(input_files[1])
    /\ Len(input_files[1].cases) = 2
    /\ CaseGood(input_files[1].cases[1])
    /\ ~CaseGood(input_files[1].cases[2])
    /\ ~done_files[1] /\ written[1] = <<>>
    /\ done_files[2] /\ written[2] # <<>>
    /\ success_count = 1
    /\ exit = <<1>>

====
